---- MODULE Spec2Model ----
(***************************************************************************)
(* Model of the doctor-bot backend: the job catalog and its two search     *)
(* routines (searchJobs, findWithNearby/filterJobs), the text filter       *)
(* extractors (parseAsk, extractFiltersFromText), the per-session history  *)
(* (pushMsg) and the three POST /api/chat handlers.                        *)
(*                                                                         *)
(* JavaScript values: an absent / null / undefined / empty string is "",   *)
(* an absent or zero number is 0 (both are falsy in the guards of the      *)
(* code, which is all the code ever asks of them).                         *)
(***************************************************************************)
EXTENDS Integers, Sequences, FiniteSets, TLC

VARIABLES
    JOBS,        \* the catalog loaded at startup (index.mjs:36-48, 264-272)
    op,          \* the last operation applied
    filters,     \* the FilterSet handed to the last search operation
    result,      \* what the last search operation returned
    sessions,    \* session_id -> history (index.mjs:24, part_000:10)
    appended,    \* history variable: session_id -> every turn ever pushed
    text,        \* the message handed to the last extractor call
    extracted,   \* what the last extractor call returned
    server,      \* which of the three servers of the repository is running
    rq           \* the POST /api/chat requests: request -> its handler's state

vars == <<JOBS, op, filters, result, sessions, appended, text, extracted, server, rq>>

----------------------------------------------------------------------------
(* Bounds of the model *)

MaxJobs == 3        \* postings in an enumerated catalog
MaxPerState == 6    \* postings per state in a catalog built by state counts
MaxTurns == 26      \* turns pushed to one session
MaxMsgLen == 3      \* words of a message handed to an extractor
MaxChunks == 2      \* chunks one generative stream delivers

----------------------------------------------------------------------------
(* Strings: the conversions the code applies, on the strings of the model *)

\* String.prototype.toUpperCase
Upper(s) ==
    CASE s = "tx"   -> "TX"
      [] s = "tx "  -> "TX "
      [] s = "nm"   -> "NM"
      [] s = "fl"   -> "FL"
      [] s = "crna" -> "CRNA"
      [] s = "np"   -> "NP"
      [] s = "pa"   -> "PA"
      [] s = "md"   -> "MD"
      [] s = "Anesthesia" -> "ANESTHESIA"
      [] s = "hr"   -> "HR"
      [] s = "hour" -> "HOUR"
      [] s = "day"  -> "DAY"
      [] s = "in"   -> "IN"
      [] OTHER      -> s

\* String.prototype.toLowerCase
Lower(s) ==
    CASE s = "TX"   -> "tx"
      [] s = "CRNA" -> "crna"
      [] s = "HR"   -> "hr"
      [] s = "Hour" -> "hour"
      [] s = "DAY"  -> "day"
      [] OTHER      -> s

\* String.prototype.trim
Trim(s) ==
    CASE s = "tx "  -> "tx"
      [] s = "TX "  -> "TX"
      [] s = " hr"  -> "hr"
      [] OTHER      -> s

\* const norm = s => String(s ?? "").trim();
norm(s) == Trim(s)

\* const same = (a, b) => norm(a).toUpperCase() === norm(b).toUpperCase();
same(a, b) == Upper(norm(a)) = Upper(norm(b))

canonUnit(u) ==
    LET x == Lower(Trim(u))
    IN  IF x \in {"hr", "hour", "hours", "/hr", "/hour"} THEN "hour"
        ELSE IF x \in {"day", "daily", "/day"} THEN "day"
        ELSE x

----------------------------------------------------------------------------
(* Sequences *)

Min2(a, b) == IF a < b THEN a ELSE b

\* Array.prototype.slice(0, n)
Slice0(s, n) == SubSeq(s, 1, Min2(n, Len(s)))

----------------------------------------------------------------------------
(* searchJobs: the tiered search of the streaming server *)

\* a slack of 20% instead of 15%
Slack80(minRate) == (minRate * 80 + 50) \div 100

\* const slack = Math.round(minRate * 0.85);
Slack85(minRate) == (minRate * 85 + 50) \div 100

rateMeets(job, minRate, unit) ==
    IF minRate = 0 THEN TRUE
    ELSE IF unit = "" THEN job.rate_numeric >= minRate
    ELSE IF unit = job.rate_unit THEN job.rate_numeric >= minRate
    ELSE job.rate_numeric >= minRate

B2N(b) == IF b THEN 1 ELSE 0

\* a ranking that forgets the priority
cmpRateOnly(a, b) == b.rate_numeric - a.rate_numeric

\* (a, b) => (b.priority === "High") - (a.priority === "High") || (b.rate_numeric - a.rate_numeric)
cmpRank(a, b) ==
    LET d == B2N(b.priority = "High") - B2N(a.priority = "High")
    IN  IF d # 0 THEN d ELSE b.rate_numeric - a.rate_numeric

\* (a, b) => b.rate_numeric - a.rate_numeric
cmpRate(a, b) == b.rate_numeric - a.rate_numeric

\* the comparator handed to Array.prototype.sort, by the name of the call site
Cmp(by, a, b) == IF by = "rank" THEN cmpRank(a, b) ELSE cmpRate(a, b)

\* Array.prototype.sort(cmp): stable (ECMAScript 2019); cmp(a, b) > 0 puts b first.
RECURSIVE InsertStable(_, _, _)
InsertStable(x, s, by) ==
    IF s = <<>> THEN <<x>>
    ELSE IF Cmp(by, Head(s), x) > 0 THEN <<x>> \o s
    ELSE <<Head(s)>> \o InsertStable(x, Tail(s), by)

RECURSIVE SortFrom(_, _, _)
SortFrom(done, rest, by) ==
    IF rest = <<>> THEN done
    ELSE SortFrom(InsertStable(Head(rest), done, by), Tail(rest), by)

Sort(s, by) == SortFrom(<<>>, s, by)

TopN == 6

exactMatches(jobs, f) ==
    LET keep(j) == /\ (f.profession = "" \/ j.profession = f.profession)
                   /\ (f.specialty = "" \/ j.specialty = f.specialty)
                   /\ (f.state = "" \/ j.state = f.state)
                   /\ rateMeets(j, f.minRate, f.unit)
    IN  Sort(SelectSeq(jobs, keep), "rank")

nearMatches(jobs, f) ==
    LET slack == Slack85(f.minRate)
        keep(j) == /\ (f.profession = "" \/ j.profession = f.profession)
                   /\ (f.specialty = "" \/ j.specialty = f.specialty)
                   /\ (f.state = "" \/ j.state = f.state)
                   /\ j.rate_numeric >= slack
    IN  Sort(SelectSeq(jobs, keep), "rate")

anyMatches(jobs, f) ==
    LET keep(j) == /\ (f.profession = "" \/ j.profession = f.profession)
                   /\ (f.specialty = "" \/ j.specialty = f.specialty)
                   /\ j.rate_numeric >= f.minRate
    IN  Sort(SelectSeq(jobs, keep), "rate")

bestOverall(jobs) == Slice0(Sort(jobs, "rate"), TopN)

\* a search that forgets the state-dropped step
searchJobsNoStep3(jobs, f) ==
    IF exactMatches(jobs, f) # <<>>
    THEN [matches |-> exactMatches(jobs, f), fallbackNote |-> ""]
    ELSE IF f.minRate # 0 /\ nearMatches(jobs, f) # <<>>
    THEN [matches |-> nearMatches(jobs, f), fallbackNote |-> "slack"]
    ELSE [matches |-> bestOverall(jobs), fallbackNote |-> "best"]

searchJobs(jobs, f) ==
    IF exactMatches(jobs, f) # <<>>
    THEN [matches |-> exactMatches(jobs, f), fallbackNote |-> ""]
    ELSE IF f.minRate # 0 /\ nearMatches(jobs, f) # <<>>
    THEN [matches |-> nearMatches(jobs, f), fallbackNote |-> "slack"]
    ELSE IF f.minRate # 0 /\ anyMatches(jobs, f) # <<>>
    THEN [matches |-> anyMatches(jobs, f), fallbackNote |-> "other_states"]
    ELSE [matches |-> bestOverall(jobs), fallbackNote |-> "best"]

----------------------------------------------------------------------------
(* filterJobs / findWithNearby: the search of the batch server *)

filterJobs(jobs, f) ==
    LET min == f.minRate
        keep(j) == /\ ~(f.state # "" /\ ~same(j.state, f.state))
                   /\ ~(f.profession # "" /\ ~same(j.profession, f.profession))
                   /\ ~(f.specialty # "" /\ ~same(j.specialty, f.specialty))
                   /\ ~(f.unit # "" /\ canonUnit(j.rate_unit) # canonUnit(f.unit))
                   /\ ~(min # 0 /\ j.rate_numeric < min)
    IN  SelectSeq(jobs, keep)

NEIGHBORS(st) ==
    CASE st = "TX" -> <<"NM", "OK", "AR", "LA">>
      [] st = "OK" -> <<"CO", "KS", "MO", "AR", "TX", "NM">>
      [] st = "NM" -> <<"AZ", "UT", "CO", "OK", "TX">>
      [] st = "IN" -> <<"MI", "OH", "KY", "IL">>
      [] OTHER     -> <<>>

MaxNeighborStates == 4
SuggestionCap == 10

RECURSIVE nearbyLoop(_, _, _, _, _)
nearbyLoop(jobs, f, ns, alt, tried) ==
    IF ns = <<>> THEN [matches |-> alt, usedStates |-> tried]
    ELSE LET pick   == filterJobs(jobs, [f EXCEPT !.state = Head(ns)])
             alt2   == IF pick # <<>> THEN alt \o pick ELSE alt
             tried2 == Append(tried, Head(ns))
         IN  IF Len(alt2) >= SuggestionCap
             THEN [matches |-> alt2, usedStates |-> tried2]
             ELSE nearbyLoop(jobs, f, Tail(ns), alt2, tried2)

findWithNearby(jobs, f, maxNeighborStates) ==
    LET primary == filterJobs(jobs, f)
    IN  IF primary # <<>> \/ f.state = ""
        THEN [matches |-> primary,
              usedStates |-> IF f.state # "" THEN <<f.state>> ELSE <<>>]
        ELSE LET state == Upper(f.state)
             IN  nearbyLoop(jobs, f, Slice0(NEIGHBORS(state), maxNeighborStates),
                            <<>>, <<state>>)

----------------------------------------------------------------------------
(* Inputs of the search specifications *)

Posting(st, prof, spec, rate, unit, prio) ==
    [state |-> st, profession |-> prof, specialty |-> spec,
     rate_numeric |-> rate, rate_unit |-> unit, priority |-> prio]

PostingPool ==
    { Posting("TX", "CRNA", "Anesthesia", 200, "hour", "High"),
      Posting("TX", "CRNA", "Anesthesia", 180, "hour", "Standard"),
      Posting("NM", "CRNA", "Anesthesia", 220, "hour", "Standard"),
      Posting("FL", "NP", "Urgent Care", 200, "day", "High"),
      Posting("TX", "NP", "Urgent Care", 170, "hour", "Standard") }

\* job_id is the position in the catalog: unique, as the data model requires
WithIds(ps) ==
    [i \in 1..Len(ps) |->
        [job_id |-> i, state |-> ps[i].state, profession |-> ps[i].profession,
         specialty |-> ps[i].specialty, rate_numeric |-> ps[i].rate_numeric,
         rate_unit |-> ps[i].rate_unit, priority |-> ps[i].priority]]

Catalogs ==
    { WithIds(ps) : ps \in UNION { [1..n -> PostingPool] : n \in 0..MaxJobs } }

FilterSets ==
    [state : {"", "TX", "tx ", "FL"}, profession : {"", "CRNA"},
     specialty : {"", "Anesthesia"}, minRate : {0, 200, 210},
     unit : {"", " hr", "day"}]

NoFilters == [state |-> "", profession |-> "", specialty |-> "", minRate |-> 0, unit |-> ""]
NoResult == [matches |-> <<>>, fallbackNote |-> "", usedStates |-> <<>>]

EmptyMap == [k \in {} |-> <<>>]

OtherInit ==
    /\ sessions = EmptyMap
    /\ appended = EmptyMap
    /\ text = <<>>
    /\ extracted = NoFilters
    /\ server = "none"
    /\ rq = EmptyMap

SearchInit ==
    /\ JOBS \in Catalogs
    /\ op = "init"
    /\ filters \in FilterSets
    /\ result = NoResult
    /\ OtherInit

SearchJobs ==
    LET r == searchJobs(JOBS, filters)
    IN  /\ op' = "searchJobs"
        /\ result' = [matches |-> r.matches, fallbackNote |-> r.fallbackNote,
                      usedStates |-> <<>>]
        /\ UNCHANGED <<JOBS, filters, sessions, appended, text, extracted, server, rq>>

FindWithNearby ==
    LET r == findWithNearby(JOBS, filters, MaxNeighborStates)
    IN  /\ op' = "findWithNearby"
        /\ result' = [matches |-> r.matches, fallbackNote |-> "",
                      usedStates |-> r.usedStates]
        /\ UNCHANGED <<JOBS, filters, sessions, appended, text, extracted, server, rq>>

SearchNext == SearchJobs \/ FindWithNearby

SpecSearch == SearchInit /\ [][SearchNext]_vars

\* Catalogs for the neighbor expansion: a number of like postings per state
CountStates == <<"NM", "OK", "AR", "CO">>

RECURSIVE Copies(_, _)
Copies(p, n) == IF n = 0 THEN <<>> ELSE <<p>> \o Copies(p, n - 1)

RECURSIVE CountCatalog(_, _)
CountCatalog(c, i) ==
    IF i > Len(CountStates) THEN <<>>
    ELSE Copies(Posting(CountStates[i], "CRNA", "Anesthesia", 200, "hour", "Standard"), c[i])
         \o CountCatalog(c, i + 1)

CountCatalogs ==
    { WithIds(CountCatalog(c, 1)) : c \in [1..Len(CountStates) -> 0..MaxPerState] }

NearbyFilterSets ==
    [state : {"TX", "tx", "OK", "AR"}, profession : {"", "CRNA"},
     specialty : {""}, minRate : {0}, unit : {""}]

NearbyInit ==
    /\ JOBS \in CountCatalogs
    /\ op = "init"
    /\ filters \in NearbyFilterSets
    /\ result = NoResult
    /\ OtherInit

SpecNearby == NearbyInit /\ [][FindWithNearby]_vars

----------------------------------------------------------------------------
(* The tiers as the specification words them, over job ids *)

IdSet(ms) == { ms[i].job_id : i \in 1..Len(ms) }

\* equality of request and catalog strings up to letter case and outer blanks
CIEq(a, b) == Upper(Trim(a)) = Upper(Trim(b))

\* every present field of f matches posting j
Tier0Match(j, f) ==
    /\ (f.state # "" => CIEq(j.state, f.state))
    /\ (f.profession # "" => CIEq(j.profession, f.profession))
    /\ (f.specialty # "" => CIEq(j.specialty, f.specialty))
    /\ (f.unit # "" => canonUnit(j.rate_unit) = canonUnit(f.unit))
    /\ (f.minRate # 0 => j.rate_numeric >= f.minRate)

Tier0Ids == { JOBS[i].job_id : i \in { k \in 1..Len(JOBS) : Tier0Match(JOBS[k], filters) } }

\* the returned list is the Tier 0 list of the operation applied
IsTier0Result ==
    \/ op = "searchJobs" /\ result.fallbackNote = ""
    \/ op = "findWithNearby" /\ Len(result.usedStates) <= 1

Searched == op \in {"searchJobs", "findWithNearby"}

\* C2: the Tier 0 result is exactly the set of postings whose every present
\* filter field matches (state, profession, specialty up to case, unit up to
\* canonical spelling, rate_numeric >= minRate): none omitted, none extra.
C2_Tier0IsExactlyTheMatchingSet ==
    Searched =>
        IF Tier0Ids # {}
        THEN IsTier0Result /\ IdSet(result.matches) = Tier0Ids
        ELSE ~(IsTier0Result /\ result.matches # <<>>)

\* the steps of searchJobs, by its own matching: exact strings, rate whatever the unit
StrictMatch(j, f, withState, threshold) ==
    /\ (f.profession # "" => j.profession = f.profession)
    /\ (f.specialty # "" => j.specialty = f.specialty)
    /\ (withState /\ f.state # "" => j.state = f.state)
    /\ j.rate_numeric >= threshold

Step0Ids == { JOBS[i].job_id : i \in { k \in 1..Len(JOBS) : StrictMatch(JOBS[k], filters, TRUE, filters.minRate) } }
Step1Ids ==
    IF filters.minRate = 0 THEN {}
    ELSE { JOBS[i].job_id : i \in { k \in 1..Len(JOBS) :
             /\ StrictMatch(JOBS[k], filters, TRUE, 0)
             /\ 100 * JOBS[k].rate_numeric > 85 * filters.minRate - 50 } }
Step2Ids ==
    IF filters.minRate = 0 THEN {}
    ELSE { JOBS[i].job_id : i \in { k \in 1..Len(JOBS) : StrictMatch(JOBS[k], filters, FALSE, filters.minRate) } }

\* neighbor-state expansion of the FilterSet: what findWithNearby collects from
\* the neighbor states when the state filter has no in-state match
Step3Ids ==
    IF filters.state = "" \/ filterJobs(JOBS, filters) # <<>> THEN {}
    ELSE IdSet(findWithNearby(JOBS, filters, MaxNeighborStates).matches)

IsTier4Result == op = "searchJobs" /\ result.fallbackNote = "best"

C3_Tier1RateAndConstraints ==
    op = "searchJobs" /\ result.fallbackNote = "slack" =>
        /\ filters.minRate # 0
        /\ \A i \in 1..Len(result.matches) :
              LET j == result.matches[i]
              IN  /\ 100 * j.rate_numeric > 85 * filters.minRate - 50
                  /\ (filters.state # "" => j.state = filters.state)
                  /\ (filters.profession # "" => j.profession = filters.profession)
                  /\ (filters.specialty # "" => j.specialty = filters.specialty)

C3_Witness ==
    /\ op = "searchJobs" /\ result.fallbackNote = "slack"
    /\ filters.state # "" /\ filters.profession # ""
    /\ \E i \in 1..Len(result.matches) : result.matches[i].rate_numeric < filters.minRate
    /\ \E i \in 1..Len(JOBS) : JOBS[i].state # filters.state

\* C4: with no in-state match, the neighbor expansion returns at most 10
\* postings and probes at most 4 neighbor states.
C4_NearbyAtMost10And4 ==
    op = "findWithNearby" /\ filters.state # "" /\ Tier0Ids = {} =>
        /\ Len(result.matches) <= 10
        /\ Len(result.usedStates) - 1 <= 4

IsRanked(ms) ==
    \A i, j \in 1..Len(ms) :
        i < j =>
            LET hi == ms[i].priority = "High"
                hj == ms[j].priority = "High"
            IN  /\ (hj => hi)
                /\ (hi = hj => ms[i].rate_numeric >= ms[j].rate_numeric)
                /\ (hi = hj /\ ms[i].rate_numeric = ms[j].rate_numeric
                        => ms[i].job_id < ms[j].job_id)

IsWholeCatalog(ms) ==
    /\ Len(ms) = Len(JOBS)
    /\ \A k \in 1..Len(JOBS) : \E i \in 1..Len(ms) : ms[i] = JOBS[k]

----------------------------------------------------------------------------
(* Session memory *)

HistoryCap == 24

\* getHistory: the map after the lookup, which creates a missing entry
getHistory(m, session_id) ==
    IF session_id \in DOMAIN m THEN m ELSE (session_id :> <<>>) @@ m

\* a push that trims at the wrong end, dropping the newest turns
pushMsgDropNewest(m, session_id, msg) ==
    LET m1 == getHistory(m, session_id)
        h  == Append(m1[session_id], msg)
    IN  [m1 EXCEPT ![session_id] = SubSeq(h, 1, Min2(Len(h), HistoryCap))]

\* h.push(msg); if (h.length > 24) h.splice(0, h.length - 24);
pushMsg(m, session_id, msg) ==
    LET m1 == getHistory(m, session_id)
        h  == Append(m1[session_id], msg)
        h2 == IF Len(h) > HistoryCap
              THEN SubSeq(h, (Len(h) - HistoryCap) + 1, Len(h))
              ELSE h
    IN  [m1 EXCEPT ![session_id] = h2]

\* the history variable: every turn pushed to the session, in push order
Logged(m, session_id, msg) ==
    IF session_id \in DOMAIN m
    THEN [m EXCEPT ![session_id] = Append(@, msg)]
    ELSE (session_id :> <<msg>>) @@ m

SessionIds == {"anon", "s1"}

Pushed(session_id) == IF session_id \in DOMAIN appended THEN Len(appended[session_id]) ELSE 0

\* one call of pushMsg; the turn carries its number in the session as content
PushMsg(session_id) ==
    /\ Pushed(session_id) < MaxTurns
    /\ LET n   == Pushed(session_id) + 1
           msg == [role |-> IF n % 2 = 1 THEN "user" ELSE "assistant", content |-> n]
       IN  /\ sessions' = pushMsg(sessions, session_id, msg)
           /\ appended' = Logged(appended, session_id, msg)
    /\ op' = "pushMsg"
    /\ UNCHANGED <<JOBS, filters, result, text, extracted, server, rq>>

SessionInit ==
    /\ JOBS = <<>>
    /\ op = "init"
    /\ filters = NoFilters
    /\ result = NoResult
    /\ OtherInit

SessionNext == \E session_id \in SessionIds : PushMsg(session_id)

SpecSession == SessionInit /\ [][SessionNext]_vars

LastTurns(log, n) == SubSeq(log, (Len(log) - n) + 1, Len(log))

\* C6: every stored history has at most 24 turns and is the most recent
\* min(n, 24) of the n turns pushed to its session, in push order; a push to a
\* full history evicts the oldest turn only and leaves the other sessions alone.
C6_HistoryIsLast24 ==
    /\ DOMAIN sessions = DOMAIN appended
    /\ \A sid \in DOMAIN sessions :
          /\ Len(sessions[sid]) <= 24
          /\ sessions[sid] = LastTurns(appended[sid], Min2(Len(appended[sid]), 24))

C6_Witness ==
    \E a, b \in DOMAIN sessions :
        /\ Len(appended[a]) = 26 /\ sessions[a][1].content = 3
        /\ Len(appended[b]) = 5 /\ Len(sessions[b]) = 5

----------------------------------------------------------------------------
(* Filter extraction. A message is its sequence of blank-separated words;   *)
(* the regular expressions of the code are evaluated on the words.          *)

Words ==
    {"CRNA", "anesthesia", "urgent", "care", "np", "pa", "md", "radiology",
     "texas", "tx", "in", "$200/hr", "jobs"}

Messages == UNION { [1..n -> Words] : n \in 0..MaxMsgLen }

LowerAll(t) == [i \in 1..Len(t) |-> Lower(t[i])]

HasWord(t, w) == \E i \in 1..Len(t) : Lower(t[i]) = w
HasPair(t, w1, w2) == \E i \in 1..(Len(t) - 1) : Lower(t[i]) = w1 /\ Lower(t[i + 1]) = w2
\* a word that contains "anesth"; all such words of the model begin with it
HasAnesth(t) == \E i \in 1..Len(t) : Lower(t[i]) \in {"anesth", "anesthesia", "anesthesiology"}
\* a word that begins with "radiolog"
HasRadiolog(t) == \E i \in 1..Len(t) : Lower(t[i]) \in {"radiolog", "radiology", "radiologist"}

STATES ==
    {"AL","AK","AZ","AR","CA","CO","CT","DC","DE","FL","GA","HI","IA","ID","IL","IN","KS","KY",
     "LA","MA","MD","ME","MI","MN","MO","MS","MT","NC","ND","NE","NH","NJ","NM","NV","NY","OH",
     "OK","OR","PA","RI","SC","SD","TN","TX","UT","VA","VT","WA","WI","WV","WY"}

\* the state codes of the regular expression of extractFiltersFromText (no DC)
StateCodes == STATES \ {"DC"}

\* the two-letter words inside one blank-separated word, in text order
TwoLetterWords(w) ==
    IF w \in {"np", "pa", "md", "tx", "in"} THEN <<w>>
    ELSE IF w = "$200/hr" THEN <<"hr">>
    ELSE <<>>

RECURSIVE AllTwoLetterWords(_)
AllTwoLetterWords(t) ==
    IF t = <<>> THEN <<>> ELSE TwoLetterWords(Head(t)) \o AllTwoLetterWords(Tail(t))

\* STATE_NAME: the abbreviations whose name occurs in the word, in table order
NamedStates(w) == IF w = "texas" THEN <<"TX">> ELSE <<>>

RECURSIVE LastNamedState(_, _)
LastNamedState(t, state) ==
    IF t = <<>> THEN state
    ELSE LET ns == NamedStates(Head(t))
         IN  LastNamedState(Tail(t), IF ns = <<>> THEN state ELSE ns[Len(ns)])

\* the digit runs of 2 to 4 digits inside one word, as numbers
Numbers(w) == IF w = "$200/hr" THEN <<200>> ELSE <<>>

RECURSIVE AllNumbers(_)
AllNumbers(t) == IF t = <<>> THEN <<>> ELSE Numbers(Head(t)) \o AllNumbers(Tail(t))

HasDay(t) == \E i \in 1..Len(t) : t[i] \in {"day", "$200/day"}
HasHr(t) == \E i \in 1..Len(t) : t[i] \in {"hr", "hour", "$200/hr"}

\* the unit suffix of the first rate of the form number/unit, "" when there is none
RateUnits(w) == IF w = "$200/hr" THEN <<"hr">> ELSE <<>>

RECURSIVE AllRateUnits(_)
AllRateUnits(t) == IF t = <<>> THEN <<>> ELSE RateUnits(Head(t)) \o AllRateUnits(Tail(t))

\* the profession / specialty rules of parseAsk, in the order of the code;
\* "" in a rule is a field the rule does not assign
AskRules(t) ==
    << [hit |-> HasWord(t, "crna") \/ HasAnesth(t), profession |-> "CRNA", specialty |-> "Anesthesia"],
       [hit |-> HasPair(t, "urgent", "care"), profession |-> "Physician", specialty |-> "Urgent Care"],
       [hit |-> HasWord(t, "np") \/ HasPair(t, "nurse", "practitioner"), profession |-> "NP", specialty |-> ""],
       [hit |-> HasWord(t, "pa"), profession |-> "PA", specialty |-> ""],
       [hit |-> HasRadiolog(t), profession |-> "Physician", specialty |-> "Radiology"] >>

\* one `if (...) { profession = ...; specialty = ...; }` after the other
RECURSIVE ApplyRules(_, _, _)
ApplyRules(rules, profession, specialty) ==
    IF rules = <<>> THEN [profession |-> profession, specialty |-> specialty]
    ELSE LET r == Head(rules)
         IN  IF r.hit
             THEN ApplyRules(Tail(rules),
                             IF r.profession # "" THEN r.profession ELSE profession,
                             IF r.specialty # "" THEN r.specialty ELSE specialty)
             ELSE ApplyRules(Tail(rules), profession, specialty)

parseAsk(msg) ==
    LET t      == LowerAll(msg)
        ps     == ApplyRules(AskRules(t), "", "")
        two    == AllTwoLetterWords(t)
        mState == IF two # <<>> /\ Upper(two[1]) \in STATES THEN Upper(two[1]) ELSE ""
        nums   == AllNumbers(t)
    IN  [profession |-> ps.profession,
         specialty  |-> ps.specialty,
         state      |-> LastNamedState(t, mState),
         minRate    |-> IF nums # <<>> THEN nums[1] ELSE 0,
         unit       |-> IF HasHr(t) THEN "hour" ELSE IF HasDay(t) THEN "day" ELSE ""]

\* the profession rules (an else-if chain) and the specialty rules (two ifs) of
\* extractFiltersFromText, in the order of the code
TextProfessionRules(t) ==
    << [hit |-> HasWord(t, "crna"), profession |-> "CRNA", specialty |-> ""],
       [hit |-> HasWord(t, "np"), profession |-> "NP", specialty |-> ""],
       [hit |-> HasWord(t, "pa"), profession |-> "PA", specialty |-> ""],
       [hit |-> HasWord(t, "md"), profession |-> "MD", specialty |-> ""] >>

TextSpecialtyRules(t) ==
    << [hit |-> HasAnesth(t), profession |-> "", specialty |-> "Anesthesiology"],
       [hit |-> HasRadiolog(t), profession |-> "", specialty |-> "Diagnostic Radiology"] >>

RECURSIVE FirstStateCode(_)
FirstStateCode(two) ==
    IF two = <<>> THEN ""
    ELSE IF Upper(Head(two)) \in StateCodes THEN Upper(Head(two))
    ELSE FirstStateCode(Tail(two))

extractFiltersFromText(msg) ==
    LET pr    == TextProfessionRules(msg)
        prof  == IF pr[1].hit THEN pr[1].profession
                 ELSE IF pr[2].hit THEN pr[2].profession
                 ELSE IF pr[3].hit THEN pr[3].profession
                 ELSE IF pr[4].hit THEN pr[4].profession
                 ELSE ""
        sp    == ApplyRules(TextSpecialtyRules(msg), "", "")
        units == AllRateUnits(msg)
        nums  == AllNumbers(msg)
    IN  [profession |-> prof,
         specialty  |-> sp.specialty,
         state      |-> FirstStateCode(AllTwoLetterWords(LowerAll(msg))),
         minRate    |-> IF units # <<>> THEN nums[1] ELSE 0,
         unit       |-> IF units = <<>> THEN ""
                        ELSE IF units[1] = "day" THEN "day" ELSE "hour"]

ExtractInit ==
    /\ JOBS = <<>>
    /\ op = "init"
    /\ filters = NoFilters
    /\ result = NoResult
    /\ sessions = EmptyMap
    /\ appended = EmptyMap
    /\ text \in Messages
    /\ extracted = NoFilters
    /\ server = "none"
    /\ rq = EmptyMap

ParseAsk ==
    /\ op' = "parseAsk"
    /\ extracted' = parseAsk(text)
    /\ UNCHANGED <<JOBS, filters, result, sessions, appended, text, server, rq>>

ExtractFiltersFromText ==
    /\ op' = "extractFiltersFromText"
    /\ extracted' = extractFiltersFromText(text)
    /\ UNCHANGED <<JOBS, filters, result, sessions, appended, text, server, rq>>

ExtractNext == ParseAsk \/ ExtractFiltersFromText

SpecExtract == ExtractInit /\ [][ExtractNext]_vars

\* the value the first matching rule that assigns the field gives it
RECURSIVE FirstAssigned(_, _)
FirstAssigned(rules, field) ==
    IF rules = <<>> THEN ""
    ELSE IF Head(rules).hit /\ Head(rules)[field] # "" THEN Head(rules)[field]
    ELSE FirstAssigned(Tail(rules), field)

RulesOf(o) ==
    IF o = "parseAsk" THEN AskRules(LowerAll(text))
    ELSE TextProfessionRules(text) \o TextSpecialtyRules(text)

\* C7: the extracted profession and specialty are those of the first matching
\* rule in the order of the rules; a later matching rule does not overwrite a
\* value an earlier matching rule has set.
C7_FirstMatchingRuleWins ==
    op \in {"parseAsk", "extractFiltersFromText"} =>
        /\ extracted.profession = FirstAssigned(RulesOf(op), "profession")
        /\ extracted.specialty = FirstAssigned(RulesOf(op), "specialty")

----------------------------------------------------------------------------
(* POST /api/chat. Three servers live in the repository: the streaming      *)
(* server with the catalog search (index.mjs:1-246), the batch server       *)
(* (index.mjs:248-414) and the streaming demo server (part_000). One of     *)
(* them runs; a handler runs to its next await in one step.                 *)

Servers == {"stream_search", "batch", "stream_demo"}
Reqs == {"r1", "r2"}

ChatMessages == { <<"hello">>, <<"CRNA", "jobs">>, <<"md", "texas">> }

ChatCatalogs ==
    { <<>>,
      WithIds(<< Posting("TX", "CRNA", "Anesthesia", 200, "hour", "High"),
                 Posting("NM", "CRNA", "Anesthesia", 220, "hour", "Standard") >>) }

\* req.body.filters of the batch server: the fields the client sent
ClientFilters == { EmptyMap, "state" :> "NM" }

Ids(ms) == [i \in 1..Len(ms) |-> ms[i].job_id]

\* what sseSend / res.json / res.end put on the response
TextFrame(d) == [type |-> "text", data |-> d, items |-> <<>>]
BlocksFrame(items) == [type |-> "blocks", data |-> "", items |-> items]
JsonBody(d, jobs) == [type |-> "json", data |-> d, items |-> jobs]
EndOfStream == [type |-> "end", data |-> "", items |-> <<>>]

\* closedAt of a response whose caller is still connected
NotClosed == 0 - 1

Idle ==
    [pc |-> "idle", msg |-> <<>>, sid |-> "", matches |-> <<>>, computed |-> FALSE,
     out |-> <<>>, assistantText |-> <<>>, chunks |-> 0, failed |-> FALSE,
     consumed |-> FALSE, closedAt |-> NotClosed, closedChunks |-> 0]

\* /\b(job|jobs|locum|crna|anesth|urgent care|radiolog|np\b|pa\b|pay|rate|...)\b/i
looksJobQuery(msg) ==
    \/ \E w \in {"job", "jobs", "locum", "crna", "anesth", "radiolog", "np", "pa", "pay", "rate"} :
          HasWord(msg, w)
    \/ HasPair(msg, "urgent", "care")
    \/ HasPair(msg, "per", "hour")
    \/ HasPair(msg, "day", "rate")
    \/ HasWord(msg, "$200/day")

\* /\b(crna|anesth|urology|radiology|urgent care|job|jobs|locum)\b/i
smellsLikeJobs(msg) ==
    \/ \E w \in {"crna", "anesth", "urology", "radiology", "job", "jobs", "locum"} :
          HasWord(msg, w)
    \/ HasPair(msg, "urgent", "care")

\* async function searchJobsSvc(): the two demo cards
searchJobsSvc == <<"JO-00472", "JO-00466">>

UserTurn(r, m) == [role |-> "user", content |-> m, req |-> r]
AssistantTurn(r, t) == [role |-> "assistant", content |-> t, req |-> r]

\* catch (e) { sseSend(res, {type: "text", data: "\n(Sorry, ...)"}); res.end(); }
Caught(q) ==
    [q EXCEPT !.out = @ \o <<TextFrame("apology"), EndOfStream>>,
              !.failed = TRUE, !.pc = "done"]

\* sseSend(res, { type: "text", data: "" }); // prime client
Primed(q) == [q EXCEPT !.out = Append(@, TextFrame("")), !.pc = "streaming"]

\* one turn of `for await (const part of stream)`
Chunked(q, content) ==
    IF content # ""
    THEN [q EXCEPT !.assistantText = Append(@, content),
                   !.out = Append(@, TextFrame(content)),
                   !.chunks = @ + 1]
    ELSE [q EXCEPT !.chunks = @ + 1]

ChatInit ==
    /\ JOBS \in ChatCatalogs
    /\ op = "init"
    /\ filters = NoFilters
    /\ result = NoResult
    /\ sessions = EmptyMap
    /\ appended = EmptyMap
    /\ text = <<>>
    /\ extracted = NoFilters
    /\ server \in Servers
    /\ rq = [r \in Reqs |-> Idle]

searchVars == <<JOBS, op, filters, result, text, extracted, server>>

(* the streaming server with the catalog search: index.mjs:166-240 *)

A_Receive(r) ==
    /\ server = "stream_search" /\ rq[r].pc = "idle"
    /\ \E m \in ChatMessages, sid \in SessionIds :
          LET intent == parseAsk(m)
              sr     == searchJobs(JOBS, intent)
              lead   == \/ intent.profession # "" \/ intent.specialty # ""
                        \/ intent.state # "" \/ intent.minRate # 0
                        \/ sr.fallbackNote # ""
              out1   == IF lead THEN <<TextFrame("lead")>> ELSE <<>>
              out2   == IF sr.matches # <<>>
                        THEN Append(out1, BlocksFrame(Ids(Slice0(sr.matches, 6))))
                        ELSE out1
              ask    == ~looksJobQuery(m)
          IN  /\ sessions' = pushMsg(sessions, sid, UserTurn(r, m))
              /\ appended' = Logged(appended, sid, UserTurn(r, m))
              /\ rq' = [rq EXCEPT ![r] =
                          [Idle EXCEPT !.pc = IF ask THEN "await_create" ELSE "done",
                                       !.msg = m, !.sid = sid,
                                       !.matches = Ids(sr.matches), !.computed = TRUE,
                                       !.out = IF ask THEN out2 ELSE Append(out2, EndOfStream)]]
    /\ UNCHANGED searchVars

A_CreateResolved(r) ==
    /\ server = "stream_search" /\ rq[r].pc = "await_create"
    /\ rq' = [rq EXCEPT ![r] = Primed(@)]
    /\ UNCHANGED <<searchVars, sessions, appended>>

A_CreateFailed(r) ==
    /\ server = "stream_search" /\ rq[r].pc = "await_create"
    /\ rq' = [rq EXCEPT ![r] = Caught(@)]
    /\ UNCHANGED <<searchVars, sessions, appended>>

A_Chunk(r) ==
    /\ server = "stream_search" /\ rq[r].pc = "streaming" /\ rq[r].chunks < MaxChunks
    /\ \E content \in {"", "tok"} : rq' = [rq EXCEPT ![r] = Chunked(@, content)]
    /\ UNCHANGED <<searchVars, sessions, appended>>

\* a catch block that stores what was streamed so far
A_StreamFailedStoresPartial(r) ==
    /\ server = "stream_search" /\ rq[r].pc = "streaming"
    /\ rq' = [rq EXCEPT ![r] = Caught(@)]
    /\ sessions' = pushMsg(sessions, rq[r].sid, AssistantTurn(r, rq[r].assistantText))
    /\ appended' = Logged(appended, rq[r].sid, AssistantTurn(r, rq[r].assistantText))
    /\ UNCHANGED searchVars

A_StreamFailed(r) ==
    /\ server = "stream_search" /\ rq[r].pc = "streaming"
    /\ rq' = [rq EXCEPT ![r] = Caught(@)]
    /\ UNCHANGED <<searchVars, sessions, appended>>

A_StreamEnd(r) ==
    /\ server = "stream_search" /\ rq[r].pc = "streaming"
    /\ IF rq[r].assistantText # <<>>
       THEN /\ sessions' = pushMsg(sessions, rq[r].sid, AssistantTurn(r, rq[r].assistantText))
            /\ appended' = Logged(appended, rq[r].sid, AssistantTurn(r, rq[r].assistantText))
       ELSE UNCHANGED <<sessions, appended>>
    /\ rq' = [rq EXCEPT ![r] = [@ EXCEPT !.consumed = TRUE, !.pc = "done",
                                         !.out = Append(@, EndOfStream)]]
    /\ UNCHANGED searchVars

(* the streaming demo server: part_000:40-89 *)

C_Receive(r) ==
    /\ server = "stream_demo" /\ rq[r].pc = "idle"
    /\ \E m \in ChatMessages, sid \in SessionIds :
          /\ sessions' = pushMsg(sessions, sid, UserTurn(r, m))
          /\ appended' = Logged(appended, sid, UserTurn(r, m))
          /\ rq' = [rq EXCEPT ![r] = [Idle EXCEPT !.pc = "await_create", !.msg = m, !.sid = sid]]
    /\ UNCHANGED searchVars

C_CreateResolved(r) ==
    /\ server = "stream_demo" /\ rq[r].pc = "await_create"
    /\ rq' = [rq EXCEPT ![r] = Primed(@)]
    /\ UNCHANGED <<searchVars, sessions, appended>>

C_CreateFailed(r) ==
    /\ server = "stream_demo" /\ rq[r].pc = "await_create"
    /\ rq' = [rq EXCEPT ![r] = Caught(@)]
    /\ UNCHANGED <<searchVars, sessions, appended>>

C_Chunk(r) ==
    /\ server = "stream_demo" /\ rq[r].pc = "streaming" /\ rq[r].chunks < MaxChunks
    /\ \E content \in {"", "tok"} : rq' = [rq EXCEPT ![r] = Chunked(@, content)]
    /\ UNCHANGED <<searchVars, sessions, appended>>

C_StreamFailed(r) ==
    /\ server = "stream_demo" /\ rq[r].pc = "streaming"
    /\ rq' = [rq EXCEPT ![r] = Caught(@)]
    /\ UNCHANGED <<searchVars, sessions, appended>>

C_StreamEnd(r) ==
    /\ server = "stream_demo" /\ rq[r].pc = "streaming"
    /\ IF rq[r].assistantText # <<>>
       THEN /\ sessions' = pushMsg(sessions, rq[r].sid, AssistantTurn(r, rq[r].assistantText))
            /\ appended' = Logged(appended, rq[r].sid, AssistantTurn(r, rq[r].assistantText))
       ELSE UNCHANGED <<sessions, appended>>
    /\ rq' = [rq EXCEPT ![r] =
                IF smellsLikeJobs(rq[r].msg)
                THEN [@ EXCEPT !.consumed = TRUE, !.pc = "await_svc"]
                ELSE [@ EXCEPT !.consumed = TRUE, !.pc = "done",
                               !.out = Append(@, EndOfStream)]]
    /\ UNCHANGED searchVars

\* const items = await searchJobsSvc(); sseSend(blocks); res.end();
C_SvcDone(r) ==
    /\ server = "stream_demo" /\ rq[r].pc = "await_svc"
    /\ rq' = [rq EXCEPT ![r] = [@ EXCEPT !.matches = searchJobsSvc, !.computed = TRUE,
                                         !.out = @ \o <<BlocksFrame(searchJobsSvc), EndOfStream>>,
                                         !.pc = "done"]]
    /\ UNCHANGED <<searchVars, sessions, appended>>

(* the batch server: index.mjs:365-409 *)

FilterFields == {"state", "profession", "specialty", "unit", "minRate"}

\* const filters = { ...parsed, ...clientFilters };
MergeFilters(parsed, clientFilters) ==
    [k \in FilterFields |-> IF k \in DOMAIN clientFilters THEN clientFilters[k] ELSE parsed[k]]

B_Receive(r) ==
    /\ server = "batch" /\ rq[r].pc = "idle"
    /\ \E m \in ChatMessages, cf \in ClientFilters :
          LET f == MergeFilters(extractFiltersFromText(m), cf)
              found == findWithNearby(JOBS, f, MaxNeighborStates)
          IN  rq' = [rq EXCEPT ![r] = [Idle EXCEPT !.pc = "await_create", !.msg = m,
                                                   !.matches = Ids(found.matches),
                                                   !.computed = TRUE]]
    /\ UNCHANGED <<searchVars, sessions, appended>>

\* res.json({ text: ..., jobs: matches });
B_CreateResolved(r) ==
    /\ server = "batch" /\ rq[r].pc = "await_create"
    /\ rq' = [rq EXCEPT ![r] = [@ EXCEPT !.out = <<JsonBody("text", rq[r].matches)>>,
                                         !.consumed = TRUE, !.pc = "done"]]
    /\ UNCHANGED <<searchVars, sessions, appended>>

\* res.status(500).json({ error: "chat_failed" });
B_CreateFailed(r) ==
    /\ server = "batch" /\ rq[r].pc = "await_create"
    /\ rq' = [rq EXCEPT ![r] = [@ EXCEPT !.out = <<JsonBody("chat_failed", <<>>)>>,
                                         !.failed = TRUE, !.pc = "done"]]
    /\ UNCHANGED <<searchVars, sessions, appended>>

ChatNext ==
    \E r \in Reqs :
        \/ A_Receive(r) \/ A_CreateResolved(r) \/ A_CreateFailed(r)
        \/ A_Chunk(r) \/ A_StreamFailed(r) \/ A_StreamEnd(r)
        \/ C_Receive(r) \/ C_CreateResolved(r) \/ C_CreateFailed(r)
        \/ C_Chunk(r) \/ C_StreamFailed(r) \/ C_StreamEnd(r) \/ C_SvcDone(r)
        \/ B_Receive(r) \/ B_CreateResolved(r) \/ B_CreateFailed(r)

SpecChat == ChatInit /\ [][ChatNext]_vars

Streaming == server \in {"stream_search", "stream_demo"}

\* C8: on a streamed response every text frame is written before the blocks
\* frame, nothing is written after the end of the stream, and a finished
\* response is closed by the end of the stream.
C8_TextThenBlocksThenEnd ==
    Streaming =>
        \A r \in Reqs :
            LET o == rq[r].out
            IN  /\ \A i, j \in 1..Len(o) :
                      i < j => /\ ~(o[i].type = "blocks" /\ o[j].type = "text")
                               /\ o[i].type # "end"
                /\ rq[r].pc = "done" => o # <<>> /\ o[Len(o)].type = "end"

Delivered(r) ==
    \E i \in 1..Len(rq[r].out) :
        /\ rq[r].out[i].type \in {"blocks", "json"}
        /\ rq[r].out[i].items = Slice0(rq[r].matches, 6)

Apologised(r) ==
    \E i \in 1..Len(rq[r].out) :
        rq[r].out[i].type = "text" /\ rq[r].out[i].data = "apology"

\* C9: when the generative call of a request fails, the matches computed for
\* the request are delivered all the same, with an apologetic message.
C9_FailureStillDeliversMatches ==
    \A r \in Reqs :
        rq[r].pc = "done" /\ rq[r].failed /\ rq[r].computed /\ rq[r].matches # <<>>
            => Delivered(r) /\ Apologised(r)

AssistantTurnsOf(r) ==
    { t \in UNION { { sessions[sid][i] : i \in 1..Len(sessions[sid]) } : sid \in DOMAIN sessions } :
        t.role = "assistant" /\ t.req = r }

\* C10: a request whose generative call failed, before the first chunk or
\* after some, has no assistant turn in any history; an assistant turn is in a
\* history only once its request has consumed the whole stream, and it holds
\* the whole streamed text.
C10_NoAssistantTurnOnFailure ==
    \A r \in Reqs :
        /\ rq[r].failed => AssistantTurnsOf(r) = {}
        /\ \A t \in AssistantTurnsOf(r) :
              rq[r].consumed /\ t.content = rq[r].assistantText /\ t.content # <<>>

C10_Witness ==
    \E r, r2 \in Reqs :
        /\ r # r2 /\ rq[r].sid = rq[r2].sid
        /\ rq[r].pc = "done" /\ rq[r].failed /\ rq[r].assistantText # <<>>
        /\ \E i \in 1..Len(sessions[rq[r].sid]) : sessions[rq[r].sid][i] = UserTurn(r, rq[r].msg)
        /\ AssistantTurnsOf(r2) # {}

----------------------------------------------------------------------------
(* The caller of a streamed response goes away. No handler listens for the  *)
(* 'close' of its request or response, so the event changes nothing the     *)
(* handlers read; closedAt and closedChunks record how many frames were     *)
(* written and how many chunks were taken from the stream when it happened. *)

InProgress(r) == rq[r].pc \in {"await_create", "streaming", "await_svc"}

Disconnect(r) ==
    /\ Streaming /\ InProgress(r) /\ rq[r].closedAt = NotClosed
    /\ rq' = [rq EXCEPT ![r] = [@ EXCEPT !.closedAt = Len(rq[r].out),
                                         !.closedChunks = rq[r].chunks]]
    /\ UNCHANGED <<searchVars, sessions, appended>>

CancelInit == ChatInit /\ Streaming

CancelNext ==
    \E r \in Reqs :
        \/ A_Receive(r) \/ A_CreateResolved(r) \/ A_CreateFailed(r)
        \/ A_Chunk(r) \/ A_StreamFailed(r) \/ A_StreamEnd(r)
        \/ C_Receive(r) \/ C_CreateResolved(r) \/ C_CreateFailed(r)
        \/ C_Chunk(r) \/ C_StreamFailed(r) \/ C_StreamEnd(r) \/ C_SvcDone(r)
        \/ Disconnect(r)

SpecCancel == CancelInit /\ [][CancelNext]_vars

\* C11: once the caller has disconnected from a streamed response in progress,
\* the handler takes no further chunk from the generative stream and writes
\* no further frame to the response (closing the response is not a write).
C11_NoWriteAfterDisconnect ==
    \A r \in Reqs :
        rq[r].closedAt # NotClosed =>
            /\ rq[r].chunks = rq[r].closedChunks
            /\ \A i \in (rq[r].closedAt + 1)..Len(rq[r].out) : rq[r].out[i].type = "end"

====
